---- MODULE Spec2Model ----
(***************************************************************************)
(* Model of zerosh (src/src/lib.rs, src/src/worker.rs, src/src/util.rs).   *)
(*                                                                         *)
(* Three threads:                                                          *)
(*   main           run_shell's loop over process()        (lib.rs)        *)
(*   signal_handler forwards SIGINT/SIGTSTP/SIGCHLD        (lib.rs)        *)
(*   worker         `for msg in worker_rx.iter()`          (worker.rs)     *)
(* Two channels:                                                           *)
(*   worker_tx -> worker_rx  unbounded mpsc::channel, two producers        *)
(*   shell_tx  -> shell_rx   mpsc::sync_channel(0)                         *)
(*                                                                         *)
(* The worker's handler is `match msg { _ => todo!() }`: it panics on the  *)
(* first message of either kind, which ends the worker thread and drops    *)
(* worker_rx.  Nothing in the sources ever sends on shell_tx, so the two   *)
(* shell_rx.recv() calls of process() never return: the clone handed to    *)
(* spawn_worker is dropped when spawn_worker returns (the closure does not *)
(* capture it), and run_shell's own shell_tx stays alive, so recv() blocks *)
(* instead of failing.  Spec is the program as it is.  OrchSpec adds the    *)
(* reply handling of process() with the message received as an input, and  *)
(* SysSpec is util.rs's run_syscall, which no source file calls.           *)
(***************************************************************************)
EXTENDS Integers, Sequences, FiniteSets, TLC

VARIABLES
    main_pc,      \* where the main thread is in run_shell / process
    state,        \* lib.rs State: exit_code, last_exit_code
    relay_alive,  \* the signal_handler thread has not panicked
    worker_pc,    \* where the worker thread is in its loop
    worker,       \* worker.rs Worker: exit_code, fg
    worker_q,     \* messages sent on worker_tx and not yet received
    rx_alive,     \* worker_rx has not been dropped
    shell_sent,   \* messages sent on shell_tx, in order
    tty_pgrp,     \* the process group that holds the controlling terminal
    sent,         \* history: every message accepted by the queue, in order
    taken,        \* history: every message the worker received, in order
    handled,      \* history: how many times the worker's match has run
    sys_pc,       \* where a call of run_syscall is: idle, loop, match, returned
    sys_f,        \* the results f gives, call after call
    sys_calls,    \* how many times run_syscall has called f
    sys_res,      \* the result of the last call of f
    sys_ret       \* what run_syscall returned

shvars == << main_pc, state, relay_alive, worker_pc, worker, worker_q,
             rx_alive, shell_sent, tty_pgrp, sent, taken, handled >>

sysvars == << sys_pc, sys_f, sys_calls, sys_res, sys_ret >>

vars == << shvars, sysvars >>

-----------------------------------------------------------------------------
(* Bounds *)

\* Messages accepted by the worker's queue over a whole run.
MaxSent == 4

\* Calls of f that one call of run_syscall is followed through.
MaxCalls == 3

-----------------------------------------------------------------------------
(* Program constants *)

SIGINT == 2
SIGTSTP == 20
SIGCHLD == 17

\* signal_hook Signals::new(&[SIGINT, SIGTSTP, SIGCHLD])
Signals == {SIGINT, SIGTSTP, SIGCHLD}

None == "None"
SHELL == "shell"

-----------------------------------------------------------------------------
(* Messages *)

\* WorkerMsg::Signal { signal }
Signal(s) == [type |-> "Signal", signal |-> s, cmd |-> << >>]

\* WorkerMsg::Cmd { cmd }
Cmd(c) == [type |-> "Cmd", signal |-> 0, cmd |-> c]

\* ShellMsg::Continue { code }
Continue(code) == [type |-> "Continue", code |-> code]

\* ShellMsg::Quit { code }
Quit(code) == [type |-> "Quit", code |-> code]

-----------------------------------------------------------------------------
(* Lines.  A line is a sequence of characters; " " is whitespace and every *)
(* other element stands for a run of non-blank characters.                 *)

RawLines ==
    { << >>,
      << " " >>,
      << "exit" >>,
      << " ", "exit", " " >>,
      << "ls" >>,
      << "ls", " ", "|", " ", "|", " ", "wc" >>,
      << "sleep", " ", "&" >> }

RECURSIVE TrimStart(_)
TrimStart(l) ==
    IF l = << >> THEN << >>
    ELSE IF Head(l) = " " THEN TrimStart(Tail(l))
    ELSE l

RECURSIVE TrimEnd(_)
TrimEnd(l) ==
    IF l = << >> THEN << >>
    ELSE IF l[Len(l)] = " " THEN TrimEnd(SubSeq(l, 1, Len(l) - 1))
    ELSE l

\* str::trim
Trim(l) == TrimEnd(TrimStart(l))

\* "exit".to_string()
ExitLine == << "exit" >>

-----------------------------------------------------------------------------
(* Construction *)

\* State::create
StateCreate == [exit_code |-> 0, last_exit_code |-> 0]

\* Worker::new with a process group already recorded as foreground.
WorkerNewFgSet == [exit_code |-> 0, fg |-> "pgid1"]

\* Worker::new
WorkerNew == [exit_code |-> 0, fg |-> None]

ShellInit ==
    /\ main_pc = "readline"
    /\ state = StateCreate
    /\ relay_alive = TRUE
    /\ worker_pc = "recv"
    /\ worker = WorkerNew
    /\ worker_q = << >>
    /\ rx_alive = TRUE
    /\ shell_sent = << >>
    /\ tty_pgrp = SHELL
    /\ sent = << >>
    /\ taken = << >>
    /\ handled = 0

\* No source file calls run_syscall: in the shell's runs it stays idle.
SysIdle ==
    /\ sys_pc = "idle"
    /\ sys_f = << >>
    /\ sys_calls = 0
    /\ sys_res = None
    /\ sys_ret = None

Init == ShellInit /\ SysIdle

-----------------------------------------------------------------------------
(* The channel to the worker *)

\* The effect of a successful send.
Enqueue(m) ==
    /\ worker_q' = Append(worker_q, m)
    /\ sent' = Append(sent, m)

DequeueLast(q) == [msg |-> q[Len(q)], rest |-> SubSeq(q, 1, Len(q) - 1)]

\* worker_rx.iter(): the oldest message first.
Dequeue(q) == [msg |-> Head(q), rest |-> Tail(q)]

-----------------------------------------------------------------------------
(* main thread: process() *)

\* readline returns Ok(line).
ReadlineOk ==
    /\ UNCHANGED sysvars
    /\ main_pc = "readline"
    /\ \E raw \in RawLines :
         LET line == Trim(raw) IN
         IF line = << >>
         THEN UNCHANGED vars
         ELSE IF rx_alive
              THEN /\ Len(sent) < MaxSent
                   /\ Enqueue(Cmd(line))
                   /\ main_pc' = "recv_line"
                   /\ UNCHANGED << state, relay_alive, worker_pc, worker,
                                   rx_alive, shell_sent, tty_pgrp, taken, handled >>
              ELSE /\ main_pc' = "err"
                   /\ UNCHANGED << state, relay_alive, worker_pc, worker,
                                   worker_q, rx_alive, shell_sent, tty_pgrp,
                                   sent, taken, handled >>

\* readline returns Err(Interrupted).
ReadlineInterrupted ==
    /\ UNCHANGED sysvars
    /\ main_pc = "readline"
    /\ UNCHANGED vars

\* readline returns Err(Eof): "exit" is sent and a Quit is awaited.
ReadlineEof ==
    /\ UNCHANGED sysvars
    /\ main_pc = "readline"
    /\ IF rx_alive
       THEN /\ Len(sent) < MaxSent
            /\ Enqueue(Cmd(ExitLine))
            /\ main_pc' = "recv_eof"
            /\ UNCHANGED << state, relay_alive, worker_pc, worker, rx_alive,
                            shell_sent, tty_pgrp, taken, handled >>
       ELSE /\ main_pc' = "err"
            /\ UNCHANGED << state, relay_alive, worker_pc, worker, worker_q,
                            rx_alive, shell_sent, tty_pgrp, sent, taken, handled >>

\* readline returns any other error.
ReadlineErr ==
    /\ UNCHANGED sysvars
    /\ main_pc = "readline"
    /\ state' = [state EXCEPT !.exit_code = 1]
    /\ main_pc' = "done"
    /\ UNCHANGED << relay_alive, worker_pc, worker, worker_q, rx_alive,
                    shell_sent, tty_pgrp, sent, taken, handled >>

\* Exit codes a reply may carry.
Codes == {0, 130}

\* Every value of ShellMsg.
ShellMsgs == {Continue(c) : c \in Codes} \cup {Quit(c) : c \in Codes}

\* The match after a line with the code of a Continue stored as exit_code.
ProcessReplyWrongField(st, msg) ==
    IF msg.type = "Continue"
    THEN [state |-> [st EXCEPT !.exit_code = msg.code], pc |-> "readline"]
    ELSE [state |-> [st EXCEPT !.exit_code = msg.code], pc |-> "done"]

\* The match on shell_rx.recv() after a line: the new State and the new
\* position of the main thread.
ProcessReply(st, msg) ==
    IF msg.type = "Continue"
    THEN [state |-> [st EXCEPT !.last_exit_code = msg.code], pc |-> "readline"]
    ELSE [state |-> [st EXCEPT !.exit_code = msg.code], pc |-> "done"]

\* The match on shell_rx.recv() after end of input.
ProcessEofReply(st, msg) ==
    IF msg.type = "Quit"
    THEN [state |-> [st EXCEPT !.exit_code = msg.code], pc |-> "done"]
    ELSE [state |-> st, pc |-> "panicked"]

\* shell_rx.recv() after a line returns msg.  The channel has no buffer, so
\* the message is sent and received in one step; who sends it is left open.
RecvLineReply ==
    /\ UNCHANGED sysvars
    /\ main_pc = "recv_line"
    /\ \E msg \in ShellMsgs :
         LET r == ProcessReply(state, msg) IN
         /\ shell_sent' = Append(shell_sent, msg)
         /\ state' = r.state
         /\ main_pc' = r.pc
    /\ UNCHANGED << relay_alive, worker_pc, worker, worker_q, rx_alive,
                    tty_pgrp, sent, taken, handled >>

\* shell_rx.recv() after end of input returns msg.
RecvEofReply ==
    /\ UNCHANGED sysvars
    /\ main_pc = "recv_eof"
    /\ \E msg \in ShellMsgs :
         LET r == ProcessEofReply(state, msg) IN
         /\ shell_sent' = Append(shell_sent, msg)
         /\ state' = r.state
         /\ main_pc' = r.pc
    /\ UNCHANGED << relay_alive, worker_pc, worker, worker_q, rx_alive,
                    tty_pgrp, sent, taken, handled >>

-----------------------------------------------------------------------------
(* signal_handler thread *)

\* One turn of `for signal in signals.forever()`.
SignalRelay ==
    /\ UNCHANGED sysvars
    /\ relay_alive
    /\ \E s \in Signals :
         IF rx_alive
         THEN /\ Len(sent) < MaxSent
              /\ Enqueue(Signal(s))
              /\ UNCHANGED << main_pc, state, relay_alive, worker_pc, worker,
                              rx_alive, shell_sent, tty_pgrp, taken, handled >>
         ELSE \* send(..).unwrap() on a closed channel
              /\ relay_alive' = FALSE
              /\ UNCHANGED << main_pc, state, worker_pc, worker, worker_q,
                              rx_alive, shell_sent, tty_pgrp, sent, taken, handled >>

-----------------------------------------------------------------------------
(* worker thread *)

\* The iterator yields the next message.
WorkerRecv ==
    /\ UNCHANGED sysvars
    /\ worker_pc = "recv"
    /\ rx_alive
    /\ worker_q # << >>
    /\ LET d == Dequeue(worker_q) IN
         /\ worker_q' = d.rest
         /\ taken' = Append(taken, d.msg)
    /\ worker_pc' = "match"
    /\ UNCHANGED << main_pc, state, relay_alive, worker, rx_alive, shell_sent,
                    tty_pgrp, sent, handled >>

\* `match msg { _ => todo!() }`: the thread panics; unwinding drops
\* worker_rx and with it every message still queued.
WorkerMatch ==
    /\ UNCHANGED sysvars
    /\ worker_pc = "match"
    /\ worker_pc' = "panicked"
    /\ rx_alive' = FALSE
    /\ worker_q' = << >>
    /\ handled' = handled + 1
    /\ UNCHANGED << main_pc, state, relay_alive, worker, shell_sent, tty_pgrp,
                    sent, taken >>

-----------------------------------------------------------------------------
(* util.rs: run_syscall *)

\* Result<T, nix::Error>
Ok(v) == [kind |-> "Ok", val |-> v]
Err(e) == [kind |-> "Err", val |-> e]

Results == {Ok("a"), Ok("b"), Err("EINTR"), Err("EBADF")}

RetryOnAnyErr(r) == r.kind = "Err"

\* The arm `Err(nix::Error::EINTR) => continue`.
IsEintr(r) == r = Err("EINTR")

\* The sequences of the results of f: f may answer each call differently,
\* and gives a result other than Err(EINTR) at the latest at call MaxCalls.
Scripts ==
    UNION { { s \in [1..n -> Results] : s[n] # Err("EINTR") } : n \in 1..MaxCalls }

\* run_syscall is entered with some f.
SysInit ==
    /\ ShellInit
    /\ sys_pc = "loop"
    /\ sys_f \in Scripts
    /\ sys_calls = 0
    /\ sys_res = None
    /\ sys_ret = None

\* `match f()`: f is called once more.
SysCall ==
    /\ sys_pc = "loop"
    /\ sys_calls < Len(sys_f)
    /\ sys_calls' = sys_calls + 1
    /\ sys_res' = sys_f[sys_calls + 1]
    /\ sys_pc' = "match"
    /\ UNCHANGED << sys_f, sys_ret >>
    /\ UNCHANGED shvars

\* The two arms: continue, or break with the result.
SysMatch ==
    /\ sys_pc = "match"
    /\ IF IsEintr(sys_res)
       THEN /\ sys_pc' = "loop"
            /\ UNCHANGED sys_ret
       ELSE /\ sys_pc' = "returned"
            /\ sys_ret' = sys_res
    /\ UNCHANGED << sys_f, sys_calls, sys_res >>
    /\ UNCHANGED shvars

SysNext ==
    \/ SysCall
    \/ SysMatch

\* The calling thread keeps running: a step that can be taken is taken.
SysSpec == SysInit /\ [][SysNext]_vars /\ WF_vars(SysNext)

-----------------------------------------------------------------------------

Next ==
    \/ ReadlineOk
    \/ ReadlineInterrupted
    \/ ReadlineEof
    \/ ReadlineErr
    \/ SignalRelay
    \/ WorkerRecv
    \/ WorkerMatch

Spec == Init /\ [][Next]_vars

\* The main thread and the signal relay against any peer on shell_tx: as
\* Spec, and a recv() of process() may return any ShellMsg.
OrchNext ==
    \/ ReadlineOk
    \/ ReadlineInterrupted
    \/ ReadlineEof
    \/ ReadlineErr
    \/ RecvLineReply
    \/ RecvEofReply
    \/ SignalRelay
    \/ WorkerRecv
    \/ WorkerMatch

OrchSpec == Init /\ [][OrchNext]_vars

-----------------------------------------------------------------------------
(* Helpers for the properties *)

RECURSIVE CmdCount(_)
CmdCount(s) ==
    IF s = << >> THEN 0
    ELSE (IF Head(s).type = "Cmd" THEN 1 ELSE 0) + CmdCount(Tail(s))

\* The messages whose handling has run to its end.
HandledMsgs == SubSeq(taken, 1, handled)

\* The worker is between two messages or has stopped: no handler is running.
WorkerIdle == worker_pc # "match"

\* The reply to the last Command, if one was sent.
LastReplyIs(kind) ==
    /\ shell_sent # << >>
    /\ shell_sent[Len(shell_sent)].type = kind

\* The Command the main thread is waiting on has been handled.
PendingCmdHandled ==
    /\ main_pc \in {"recv_line", "recv_eof"}
    /\ CmdCount(HandledMsgs) = CmdCount(sent)

\* The Command the main thread is waiting on.
PendingCmd == (CHOOSE i \in 1..Len(sent) :
                  /\ sent[i].type = "Cmd"
                  /\ \A j \in (i + 1)..Len(sent) : sent[j].type # "Cmd")

-----------------------------------------------------------------------------
(* C1 *)

\* C1: once every received Command has been handled, the worker has sent
\* exactly one reply per Command and none for a Signal: the number of
\* replies equals the number of Commands handled.
C1_OneReplyPerCommand ==
    WorkerIdle => Len(shell_sent) = CmdCount(HandledMsgs)

-----------------------------------------------------------------------------
(* C2 *)

\* C2: handling a SIGINT or SIGTSTP Signal never terminates the worker:
\* after such a message has been handled the worker thread is still in its
\* loop, and the foreground owner is as it was.
C2_SignalKeepsWorker ==
    \A i \in 1..handled :
        (taken[i].type = "Signal" /\ taken[i].signal \in {SIGINT, SIGTSTP})
            => /\ worker_pc # "panicked"
               /\ worker.fg = None

-----------------------------------------------------------------------------
(* C3 *)

\* C3: at end of input the request is answered with Quit: once the worker
\* has handled the "exit" Command sent at end of input, a Quit reply has
\* been sent.
C3_EofAnsweredWithQuit ==
    (main_pc = "recv_eof" /\ PendingCmdHandled) => LastReplyIs("Quit")

-----------------------------------------------------------------------------
(* C4 *)

-----------------------------------------------------------------------------
(* C8 *)

\* C8: with no job Running or Stopped, an `exit` Command is answered with
\* Quit: once the worker has handled an `exit` line typed by the user, a
\* Quit reply has been sent.
C8_ExitAnsweredWithQuit ==
    (/\ main_pc = "recv_line"
     /\ PendingCmdHandled
     /\ sent[PendingCmd].cmd = ExitLine)
        => LastReplyIs("Quit")

-----------------------------------------------------------------------------
(* C9 *)

-----------------------------------------------------------------------------
(* C13 *)

\* The line without its whitespace.
RECURSIVE NonBlank(_)
NonBlank(l) ==
    IF l = << >> THEN << >>
    ELSE IF Head(l) = " " THEN NonBlank(Tail(l))
    ELSE << Head(l) >> \o NonBlank(Tail(l))

\* A line with an empty stage between two pipes.
EmptyStage(l) ==
    LET w == NonBlank(l) IN
    \E i \in 1..(Len(w) - 1) : w[i] = "|" /\ w[i + 1] = "|"

\* C13: a Command line that fails to parse (here: an empty stage between
\* two pipes) is answered with Continue carrying the previous exit code
\* unchanged: once the worker has handled such a line, the last reply is
\* Continue with the worker's exit code.
C13_ParseErrorAnsweredWithContinue ==
    (/\ main_pc = "recv_line"
     /\ PendingCmdHandled
     /\ EmptyStage(sent[PendingCmd].cmd))
        => /\ LastReplyIs("Continue")
           /\ shell_sent[Len(shell_sent)].code = worker.exit_code

-----------------------------------------------------------------------------
(* C15 *)

\* A line whose last token is the background marker.
EndsWithAmp(l) == l # << >> /\ l[Len(l)] = "&"

\* C15: a command line ending in `&` is answered with Continue{0} without
\* waiting for a child, the terminal staying with the shell: once the
\* worker has handled such a line, the last reply is Continue with code 0.
C15_BackgroundAnsweredWithContinue ==
    (/\ main_pc = "recv_line"
     /\ PendingCmdHandled
     /\ EndsWithAmp(sent[PendingCmd].cmd))
        => /\ LastReplyIs("Continue")
           /\ shell_sent[Len(shell_sent)].code = 0
           /\ tty_pgrp = SHELL

-----------------------------------------------------------------------------
(* C17 *)

\* C17: a SIGCHLD for a pid that is not tracked (the code tracks none) is
\* ignored and the worker keeps running: after such a message has been
\* handled the worker thread is still in its loop and the foreground owner
\* is as it was.
C17_UntrackedSigchldIgnored ==
    \A i \in 1..handled :
        (taken[i].type = "Signal" /\ taken[i].signal = SIGCHLD)
            => /\ worker_pc = "recv"
               /\ worker.fg = None
               /\ tty_pgrp = SHELL

-----------------------------------------------------------------------------
(* C19 *)

\* C19: the main thread has at most one Command outstanding (it reads the
\* next line only after the reply to the last one), sends no empty or
\* whitespace-only line, stores the code of a Continue reply as
\* last_exit_code, stops on a Quit reply with its code as exit_code; and the
\* signal relay can forward a signal whatever the main thread waits for.
C19_Orchestrator ==
    /\ CmdCount(sent) <= Len(shell_sent) + 1
    /\ main_pc = "readline" => CmdCount(sent) = Len(shell_sent)
    /\ main_pc \in {"recv_line", "recv_eof"}
          => CmdCount(sent) = Len(shell_sent) + 1
    /\ \A i \in 1..Len(sent) :
          sent[i].type = "Cmd" => NonBlank(sent[i].cmd) # << >>
    /\ shell_sent # << >> =>
          LET m == shell_sent[Len(shell_sent)] IN
          /\ (m.type = "Continue" /\ main_pc # "panicked")
                => state.last_exit_code = m.code
          /\ m.type = "Quit" => (main_pc = "done" /\ state.exit_code = m.code)
    /\ (relay_alive /\ rx_alive /\ Len(sent) < MaxSent) => ENABLED SignalRelay

\* A state where a Continue{130} reply has been stored, a second Command is
\* outstanding and a signal was forwarded while the main thread waits.
C19_Witness ==
    /\ main_pc = "recv_line"
    /\ shell_sent = << Continue(130) >>
    /\ state.last_exit_code = 130
    /\ CmdCount(sent) = 2
    /\ sent[Len(sent)].type = "Signal"

-----------------------------------------------------------------------------
(* C20 *)

\* The call of f that first gives a result other than Err(EINTR).
FirstNonEintr(s) ==
    CHOOSE i \in 1..Len(s) :
        /\ s[i] # Err("EINTR")
        /\ \A j \in 1..(i - 1) : s[j] = Err("EINTR")

C20_Safe ==
    /\ sys_calls <= FirstNonEintr(sys_f)
    /\ sys_pc = "loop" => sys_calls < FirstNonEintr(sys_f)
    /\ sys_pc = "returned" =>
          /\ sys_calls = FirstNonEintr(sys_f)
          /\ sys_ret = sys_f[FirstNonEintr(sys_f)]

\* C20: run_syscall calls f again while f gives Err(EINTR), returns the
\* first other result of f unchanged, calls f no more after it, and
\* returns for every f that gives such a result.
C20_RunSyscall == []C20_Safe /\ <>(sys_pc = "returned")

\* A state where run_syscall has returned a non-EINTR error after two
\* interrupted calls.
C20_Witness ==
    /\ sys_pc = "returned"
    /\ sys_calls = 3
    /\ sys_f[1] = Err("EINTR")
    /\ sys_f[2] = Err("EINTR")
    /\ sys_ret = Err("EBADF")

====
